---------------------------- MODULE Spec2Model ----------------------------
(***************************************************************************)
(* Film genre dashboard (22063652.py): load a CSV, derive the genre        *)
(* aggregates, draw six panels on a 3x2 grid and save the figure.          *)
(*                                                                         *)
(* A table (pandas DataFrame) is a record                                  *)
(*     [columns |-> set of column names,                                   *)
(*      index   |-> sequence of row labels,                                *)
(*      rows    |-> sequence of rows, each a function column -> value].    *)
(* A Series is a sequence of [key |-> label, value |-> number].            *)
(* Numeric cells are naturals, so sums are exact.                          *)
(***************************************************************************)
EXTENDS Integers, Sequences, FiniteSets, TLC

\* ------------------------------------------------------------------ bounds

\* Number of rows of the fixture pool the input CSV may draw its rows from.
NRows == 10

\* Rows a CSV with a missing column may draw from (a prefix of the pool).
NRowsMissing == 4

\* Number of invocations of the program in one behaviour.
MaxRuns == 2

\* --------------------------------------------------------- column names

cGenre == "Genre"
cYear == "Year"
cReleased == "Movies Released"
cGross == "Inflation-Adjusted Gross"
cTopMovie == "Top Movie"
cTopGross == "Top Movie Gross (That Year)"

RequiredColumns == {cGenre, cYear, cReleased, cGross, cTopMovie, cTopGross}

\* The columns the Genre x Year sum adds up as numbers.
NumericColumns == {cReleased, cGross, cTopGross}

\* ------------------------------------------------------- program constants

film_colors == << "#FFD700", "#FF6347", "#00FF00", "#4169E1", "#8B008B" >>

genres_of_interest == << "Adventure", "Action", "Comedy", "Drama", "Sci-Fi" >>

\* df['Year'] == 2015
TopYear == 2015

\* DataFrame.head() keeps the first five rows.
HeadRows == 5

\* The six axes of plt.subplots(3, 2): axs[r, c] is named "r,c".
Panels == {"0,0", "0,1", "1,0", "1,1", "2,0", "2,1"}

\* ------------------------------------------------------------ input space

\* Genre names in Python's string order, which group-by sorts its keys by.
GenreOrder ==
  << "Action", "Adventure", "Comedy", "Drama", "Horror", "Sci-Fi", "Western" >>

MkRow(g, y, rel, gross, tm, tg) ==
  (cGenre :> g) @@ (cYear :> y) @@ (cReleased :> rel) @@ (cGross :> gross)
    @@ (cTopMovie :> tm) @@ (cTopGross :> tg)

\* The fixture pool. It holds more than five genres in 2015, rows of other
\* years, repeated (genre, year) pairs, equal and unequal top grosses within
\* a genre, and genres outside the genres of interest.
Pool ==
  << MkRow("Drama",     2015, 3, 5, "m1",  4),
     MkRow("Western",   2015, 1, 2, "m2",  2),
     MkRow("Comedy",    2015, 2, 5, "m3",  3),
     MkRow("Sci-Fi",    2014, 2, 1, "m4",  6),
     MkRow("Adventure", 2015, 1, 7, "m5",  5),
     MkRow("Horror",    2015, 2, 3, "m6",  1),
     MkRow("Action",    2015, 3, 4, "m7",  3),
     MkRow("Drama",     2014, 1, 2, "m8",  7),
     MkRow("Comedy",    2015, 1, 2, "m9",  3),
     MkRow("Western",   2015, 2, 1, "m10", 4),
     MkRow("Sci-Fi",    2015, 1, 3, "m11", 2),
     MkRow("Drama",     2015, 2, 1, "m12", 1),
     MkRow("Action",    2014, 1, 1, "m13", 2) >>

PoolSize == IF NRows <= Len(Pool) THEN NRows ELSE Len(Pool)

\* ---------------------------------------------------------- list helpers

\* The elements of a finite set of integers, ascending.
SetToSortedSeq(S) ==
  [ r \in 1..Cardinality(S) |->
      CHOOSE x \in S : Cardinality({ y \in S : y < x }) = r - 1 ]

RECURSIVE SumPrefix(_, _)
SumPrefix(s, n) == IF n = 0 THEN 0 ELSE SumPrefix(s, n - 1) + s[n]

\* The sum of a sequence of numbers.
SumSeq(s) == SumPrefix(s, Len(s))

RECURSIVE ConcatPrefix(_, _)
ConcatPrefix(s, n) == IF n = 0 THEN << >> ELSE ConcatPrefix(s, n - 1) \o s[n]

\* The concatenation of a sequence of sequences.
ConcatSeq(s) == ConcatPrefix(s, Len(s))

\* range(n) as the sequence 0, 1, ..., n-1
PyRange(n) == [ i \in 1..n |-> i - 1 ]

\* Python's list[i] for a 0-based index i; out of range it raises IndexError.
ListGet(l, i) == IF i \in 0..(Len(l) - 1) THEN l[i + 1] ELSE "IndexError"

\* ------------------------------------------------------- table operators

\* pd.read_csv: the file's columns and rows under a fresh 0..n-1 index.
read_csv(file) ==
  [ columns |-> file.columns,
    index   |-> PyRange(Len(file.rows)),
    rows    |-> file.rows ]

\* data[col] as the sequence of the column's cells (col must be a column).
ColumnValues(data, col) == [ i \in 1..Len(data.rows) |-> data.rows[i][col] ]

\* data[mask]: the rows at the positions in mask, with the labels they had.
MaskRows(data, mask) ==
  LET keep == SetToSortedSeq(mask)
  IN  [ columns |-> data.columns,
        index   |-> [ k \in 1..Len(keep) |-> data.index[keep[k]] ],
        rows    |-> [ k \in 1..Len(keep) |-> data.rows[keep[k]] ] ]

\* The group keys of groupby('Genre'): the distinct genres, sorted.
GroupKeys(data) ==
  LET present == { data.rows[i][cGenre] : i \in 1..Len(data.rows) }
  IN  SelectSeq(GenreOrder, LAMBDA g : g \in present)

\* The group of one key: its rows, in table order, labels kept.
GetGroup(data, g) ==
  MaskRows(data, { i \in 1..Len(data.rows) : data.rows[i][cGenre] = g })

\* data.groupby('Genre')[col].sum(): one entry per key, in key order.
GroupBySum(data, col) ==
  LET keys == GroupKeys(data)
  IN  [ k \in 1..Len(keys) |->
          [ key   |-> keys[k],
            value |-> SumSeq(ColumnValues(GetGroup(data, keys[k]), col)) ] ]

\* The place of entry i of s once s is sorted by value, largest first,
\* entries of equal value keeping their order.
DescendingPlace(s, i) ==
  1 + Cardinality({ j \in 1..Len(s) : s[j].value > s[i].value })
    + Cardinality({ j \in 1..(i - 1) : s[j].value = s[i].value })

\* Variant: the sort left ascending.
sort_values_ascending(s) ==
  [ p \in 1..Len(s) |->
      s[CHOOSE i \in 1..Len(s) : DescendingPlace(s, i) = Len(s) + 1 - p] ]

\* Series.sort_values(ascending = False). Entries of equal value keep their
\* order, as the insertion sort used on short arrays leaves them.
sort_values_descending(s) ==
  [ p \in 1..Len(s) |-> s[CHOOSE i \in 1..Len(s) : DescendingPlace(s, i) = p] ]

\* The sorted (Genre, Year) keys of groupby(['Genre', 'Year']).
GenreYearKeys(data) ==
  LET keys  == GroupKeys(data)
      years(g) == SetToSortedSeq({ data.rows[i][cYear] :
                     i \in { j \in 1..Len(data.rows) : data.rows[j][cGenre] = g } })
  IN  ConcatSeq([ k \in 1..Len(keys) |->
          [ j \in 1..Len(years(keys[k])) |-> << keys[k], years(keys[k])[j] >> ] ])

\* Variant: the first row of each pair instead of the pair's sum.
GroupByGenreYearFirst(data) ==
  LET keys == GenreYearKeys(data)
      cols == data.columns \ {cGenre, cYear}
      grp(key) == MaskRows(data, { i \in 1..Len(data.rows) :
                    data.rows[i][cGenre] = key[1] /\ data.rows[i][cYear] = key[2] })
  IN  [ columns |-> cols,
        index   |-> keys,
        rows    |-> [ k \in 1..Len(keys) |->
                      [ c \in cols |-> ColumnValues(grp(keys[k]), c)[1] ] ] ]

\* data.groupby(['Genre', 'Year']).sum(): a table indexed by (genre, year),
\* every other column summed over the pair's rows; a text column sums to the
\* concatenation of its cells, kept here as their sequence.
GroupByGenreYearSum(data) ==
  LET keys == GenreYearKeys(data)
      cols == data.columns \ {cGenre, cYear}
      grp(key) == MaskRows(data, { i \in 1..Len(data.rows) :
                    data.rows[i][cGenre] = key[1] /\ data.rows[i][cYear] = key[2] })
  IN  [ columns |-> cols,
        index   |-> keys,
        rows    |-> [ k \in 1..Len(keys) |->
                      [ c \in cols |->
                          IF c \in NumericColumns
                          THEN SumSeq(ColumnValues(grp(keys[k]), c))
                          ELSE ColumnValues(grp(keys[k]), c) ] ] ]

\* x[col].idxmax(): the label of the first row holding the column's maximum.
IdxMax(x, col) ==
  LET vals == ColumnValues(x, col)
      best == CHOOSE i \in 1..Len(vals) :
                /\ \A j \in 1..Len(vals) : vals[j] <= vals[i]
                /\ \A j \in 1..(i - 1) : vals[j] < vals[i]
  IN  x.index[best]

\* x.loc[label]: the row carrying the label (labels are unique).
Loc(x, label) == x.rows[CHOOSE i \in 1..Len(x.index) : x.index[i] = label]

\* Variant: the group's first row instead of its maximal one.
TopRow_First(x) == x.rows[1]

\* lambda x: x.loc[x['Top Movie Gross (That Year)'].idxmax()]
TopRow(x) == Loc(x, IdxMax(x, cTopGross))

\* grouped.apply(lambda x: ...): one row per group key, in key order, indexed
\* by the key; with no group, an empty table of the same columns.
GroupApply(data) ==
  LET keys == GroupKeys(data)
  IN  [ columns |-> data.columns,
        index   |-> keys,
        rows    |-> [ k \in 1..Len(keys) |-> TopRow(GetGroup(data, keys[k])) ] ]

\* .reset_index(drop = True)
reset_index_drop(data) == [ data EXCEPT !.index = PyRange(Len(data.rows)) ]

\* Variant: no truncation.
head_all(data) == data

\* .head(): the first five rows
head(data) ==
  LET n == IF Len(data.rows) < HeadRows THEN Len(data.rows) ELSE HeadRows
  IN  [ data EXCEPT !.index = SubSeq(data.index, 1, n),
                    !.rows = SubSeq(data.rows, 1, n) ]

\* df[df['Year'] == 2015]
FilterYear(data) ==
  MaskRows(data, { i \in 1..Len(data.rows) : data.rows[i][cYear] = TopYear })

\* movies_2015.groupby('Genre').apply(top row).reset_index(drop = True).head()
TopMovies(movies) == head(reset_index_drop(GroupApply(movies)))

EmptyTable == [ columns |-> {}, index |-> << >>, rows |-> << >> ]

\* ------------------------------------------------------ drawing routines

\* A fresh axes of plt.subplots.
BlankAxes ==
  [ drawn |-> FALSE, title |-> "", bars |-> << >>, lines |-> << >>,
    xticks |-> << >>, xticklabels |-> << >>, legend |-> FALSE,
    axis_on |-> TRUE, text |-> "" ]

\* plot_total_movies: one bar per entry of the Series, in the Series' order.
plot_total_movies(ax, data, color, title) ==
  [ ax EXCEPT
      !.bars  = @ \o [ i \in 1..Len(data) |->
                       [ x |-> data[i].key, height |-> data[i].value,
                         color |-> color ] ],
      !.title = title,
      !.drawn = TRUE ]

\* data.loc[genre] of the Genre x Year table: the genre's rows, by year.
GenreSeries(data, genre) ==
  LET at == SetToSortedSeq({ k \in 1..Len(data.index) : data.index[k][1] = genre })
  IN  [ j \in 1..Len(at) |->
          [ x |-> data.index[at[j]][2], y |-> data.rows[at[j]][cReleased] ] ]

\* Variant: the palette position counts only the genres drawn so far.
TrendColorIndex_ByDrawn(data, genres, i) ==
  Cardinality({ j \in 0..(i - 1) :
                  \E k \in 1..Len(data.index) : data.index[k][1] = ListGet(genres, j) })

\* The palette position plot_movies_trends uses for the genre it reaches at
\* position i (0-based) of the genres list: colors[i].
TrendColorIndex(data, genres, i) == i

RECURSIVE TrendLines(_, _, _, _)
\* The loop of plot_movies_trends from position i (0-based) of genres on.
TrendLines(data, genres, colors, i) ==
  IF i >= Len(genres) THEN << >>
  ELSE LET genre == ListGet(genres, i)
           ci    == TrendColorIndex(data, genres, i)
       IN  (IF \E k \in 1..Len(data.index) : data.index[k][1] = genre
            THEN << [ label  |-> genre,
                      color  |-> ListGet(colors, ci),
                      ci     |-> ci,
                      points |-> GenreSeries(data, genre) ] >>
            ELSE << >>)
           \o TrendLines(data, genres, colors, i + 1)

plot_movies_trends(ax, data, genres, colors) ==
  [ ax EXCEPT
      !.title  = "Movies Released Trends by Genre over Years",
      !.lines  = @ \o TrendLines(data, genres, colors, 0),
      !.legend = TRUE,
      !.drawn  = TRUE ]

\* The palette position of the bar at position index: index % len(colors).
BarColorIndex(index, colors) == index % Len(colors)

\* plot_top_movies: one bar per row of data, at x = 0, 1, ...
plot_top_movies(ax, data, colors) ==
  [ ax EXCEPT
      !.bars = @ \o [ i \in 1..Len(data.rows) |->
                      [ x      |-> i - 1,
                        height |-> data.rows[i][cTopGross],
                        label  |-> << data.rows[i][cGenre], data.rows[i][cTopMovie] >>,
                        color  |-> ListGet(colors, BarColorIndex(i - 1, colors)),
                        ci     |-> BarColorIndex(i - 1, colors) ] ],
      !.title       = "Top Movies Gross Revenue by Genre in 2015",
      !.xticks      = PyRange(Len(data.rows)),
      !.xticklabels = ColumnValues(data, cGenre),
      !.legend      = TRUE,
      !.drawn       = TRUE ]

\* Variant: an empty table has lost its columns, so data['Genre'] raises.
TopPlotRaises_OnEmpty(data) ==
  \/ data.rows = << >>
  \/ ~({cGenre, cTopMovie, cTopGross} \subseteq data.columns)

\* plot_top_movies reads row['Genre'], row['Top Movie'] and the gross of
\* every row, then data['Genre']; a column it reads and does not find raises.
TopPlotRaises(data) ==
  \/ data.rows # << >> /\ ~({cGenre, cTopMovie, cTopGross} \subseteq data.columns)
  \/ cGenre \notin data.columns

add_text_subplot(ax, text) ==
  [ ax EXCEPT !.axis_on = FALSE, !.text = text, !.drawn = TRUE ]

FindingsText == "findings"
AttributionText == "Name : Ramya / Student Id : 22063652"

\* ------------------------------------------------------------ input files

Min(a, b) == IF a <= b THEN a ELSE b

\* The CSV holding the pool rows numbered in S, in pool order, with the
\* columns in cols only.
CsvFile(S, cols) ==
  LET at == SetToSortedSeq(S)
  IN  [ columns |-> cols,
        rows    |-> [ k \in 1..Len(at) |-> [ c \in cols |-> Pool[at[k]][c] ] ] ]

\* Every CSV with all the required columns over the pool, and every CSV
\* lacking one required column over a prefix of the pool.
InputFiles ==
  { CsvFile(S, RequiredColumns) : S \in SUBSET (1..PoolSize) }
    \cup { CsvFile(S, RequiredColumns \ {c}) :
             S \in SUBSET (1..Min(NRowsMissing, PoolSize)), c \in RequiredColumns }

\* ------------------------------------------------------------------ state

VARIABLES
  csv,                          \* the input file at file_path
  outFile,                      \* the file at save_path: absent, or an image
  pc,                           \* the last step create_dashboard completed
  err,                          \* the exception that ended the run, or "none"
  df,                           \* the loaded table
  genre_movies_released,        \* Series: Movies Released by genre
  genre_total_inflated_gross,   \* Series: Inflation-Adjusted Gross by genre
  grouped_by_genre_year,        \* table: sums by (genre, year)
  top_movies_2015,              \* table: top row per genre in 2015
  fig,                          \* the figure: face colour, title, layout
  axs,                          \* the six axes and what is drawn on each
  trace,                        \* the steps of this run, in order
  runs,                         \* invocations started so far
  history                       \* every image savefig has written, in order

vars ==
  << csv, outFile, pc, err, df, genre_movies_released,
     genre_total_inflated_gross, grouped_by_genre_year, top_movies_2015,
     fig, axs, trace, runs, history >>

aggregates ==
  << genre_movies_released, genre_total_inflated_gross,
     grouped_by_genre_year, top_movies_2015 >>

BlankFigure == [ created |-> FALSE, facecolor |-> "", suptitle |-> "", tight |-> FALSE ]

BlankImage == [ fig |-> BlankFigure, axs |-> [ p \in Panels |-> BlankAxes ] ]

Step(kind, n) == [ kind |-> kind, n |-> n ]

\* A fresh process: nothing loaded, nothing drawn.
FreshProcess ==
  /\ pc = "start"
  /\ err = "none"
  /\ df = EmptyTable
  /\ genre_movies_released = << >>
  /\ genre_total_inflated_gross = << >>
  /\ grouped_by_genre_year = EmptyTable
  /\ top_movies_2015 = EmptyTable
  /\ fig = BlankFigure
  /\ axs = [ p \in Panels |-> BlankAxes ]
  /\ trace = << >>

Init ==
  /\ csv \in InputFiles
  /\ outFile \in { [ exists |-> FALSE, image |-> BlankImage ],
                   [ exists |-> TRUE,  image |-> BlankImage ] }
  /\ runs = 1
  /\ history = << >>
  /\ FreshProcess

\* An uncaught exception ends the run where it is raised.
Raise(e) ==
  /\ pc' = "error"
  /\ err' = e
  /\ trace' = Append(trace, Step("raise", 0))

\* ------------------------------------------------- create_dashboard steps

\* df = load_data(file_path)
Load ==
  /\ pc = "start"
  /\ df' = read_csv(csv)
  /\ pc' = "loaded"
  /\ trace' = Append(trace, Step("load", 0))
  /\ UNCHANGED << csv, outFile, err, aggregates, fig, axs, runs, history >>

\* fig, axs = plt.subplots(3, 2); set_background_color(fig)
CreateFigure ==
  /\ pc = "loaded"
  /\ fig' = [ fig EXCEPT !.created = TRUE, !.facecolor = "#f0f0f0" ]
  /\ axs' = [ p \in Panels |-> BlankAxes ]
  /\ pc' = "figure"
  /\ trace' = Append(trace, Step("figure", 0))
  /\ UNCHANGED << csv, outFile, err, df, aggregates, runs, history >>

\* Variant: every required column is looked up before the first panel.
Aggregate1_Validating ==
  /\ pc = "figure"
  /\ IF RequiredColumns \subseteq df.columns
     THEN /\ genre_movies_released' =
               sort_values_descending(GroupBySum(df, cReleased))
          /\ pc' = "agg1"
          /\ trace' = Append(trace, Step("aggregate", 1))
          /\ UNCHANGED err
     ELSE /\ Raise("KeyError")
          /\ UNCHANGED genre_movies_released
  /\ UNCHANGED << csv, outFile, df, genre_total_inflated_gross,
                  grouped_by_genre_year, top_movies_2015, fig, axs, runs, history >>

\* df.groupby('Genre')['Movies Released'].sum().sort_values(ascending = False)
Aggregate1 ==
  /\ pc = "figure"
  /\ IF {cGenre, cReleased} \subseteq df.columns
     THEN /\ genre_movies_released' =
               sort_values_descending(GroupBySum(df, cReleased))
          /\ pc' = "agg1"
          /\ trace' = Append(trace, Step("aggregate", 1))
          /\ UNCHANGED err
     ELSE /\ Raise("KeyError")
          /\ UNCHANGED genre_movies_released
  /\ UNCHANGED << csv, outFile, df, genre_total_inflated_gross,
                  grouped_by_genre_year, top_movies_2015, fig, axs, runs, history >>

Plot1 ==
  /\ pc = "agg1"
  /\ axs' = [ axs EXCEPT !["0,0"] =
               plot_total_movies(@, genre_movies_released, ListGet(film_colors, 0),
                                 "Total Movies Released by Genre.") ]
  /\ pc' = "plot1"
  /\ trace' = Append(trace, Step("render", 1))
  /\ UNCHANGED << csv, outFile, err, df, aggregates, fig, runs, history >>

\* df.groupby('Genre')['Inflation-Adjusted Gross'].sum().sort_values(...)
Aggregate2 ==
  /\ pc = "plot1"
  /\ IF {cGenre, cGross} \subseteq df.columns
     THEN /\ genre_total_inflated_gross' =
               sort_values_descending(GroupBySum(df, cGross))
          /\ pc' = "agg2"
          /\ trace' = Append(trace, Step("aggregate", 2))
          /\ UNCHANGED err
     ELSE /\ Raise("KeyError")
          /\ UNCHANGED genre_total_inflated_gross
  /\ UNCHANGED << csv, outFile, df, genre_movies_released,
                  grouped_by_genre_year, top_movies_2015, fig, axs, runs, history >>

Plot2 ==
  /\ pc = "agg2"
  /\ axs' = [ axs EXCEPT !["0,1"] =
               plot_total_movies(@, genre_total_inflated_gross, ListGet(film_colors, 1),
                                 "Total Inflation-Adjusted Gross by Genre.") ]
  /\ pc' = "plot2"
  /\ trace' = Append(trace, Step("render", 2))
  /\ UNCHANGED << csv, outFile, err, df, aggregates, fig, runs, history >>

\* df.groupby(['Genre', 'Year']).sum()
Aggregate3 ==
  /\ pc = "plot2"
  /\ IF {cGenre, cYear} \subseteq df.columns
     THEN /\ grouped_by_genre_year' = GroupByGenreYearSum(df)
          /\ pc' = "agg3"
          /\ trace' = Append(trace, Step("aggregate", 3))
          /\ UNCHANGED err
     ELSE /\ Raise("KeyError")
          /\ UNCHANGED grouped_by_genre_year
  /\ UNCHANGED << csv, outFile, df, genre_movies_released,
                  genre_total_inflated_gross, top_movies_2015, fig, axs, runs, history >>

Plot3 ==
  /\ pc = "agg3"
  /\ axs' = [ axs EXCEPT !["1,0"] =
               plot_movies_trends(@, grouped_by_genre_year, genres_of_interest,
                                  film_colors) ]
  /\ pc' = "plot3"
  /\ trace' = Append(trace, Step("render", 3))
  /\ UNCHANGED << csv, outFile, err, df, aggregates, fig, runs, history >>

\* Variant: the year filter is applied to df itself.
Aggregate4_InPlace ==
  /\ pc = "plot3"
  /\ LET movies_2015 == FilterYear(df)
     IN  IF /\ {cGenre, cYear} \subseteq df.columns
            /\ (movies_2015.rows # << >> => cTopGross \in df.columns)
         THEN /\ top_movies_2015' = TopMovies(movies_2015)
              /\ df' = movies_2015
              /\ pc' = "agg4"
              /\ trace' = Append(trace, Step("aggregate", 4))
              /\ UNCHANGED err
         ELSE /\ Raise("KeyError")
              /\ UNCHANGED << df, top_movies_2015 >>
  /\ UNCHANGED << csv, outFile, genre_movies_released,
                  genre_total_inflated_gross, grouped_by_genre_year, fig, axs,
                  runs, history >>

\* movies_2015 = df[df['Year'] == 2015]; the top row of each of its genres.
\* The lambda reads the gross column once per group, so with no group a
\* missing gross column goes unnoticed.
Aggregate4 ==
  /\ pc = "plot3"
  /\ LET movies_2015 == FilterYear(df)
     IN  IF /\ {cGenre, cYear} \subseteq df.columns
            /\ (movies_2015.rows # << >> => cTopGross \in df.columns)
         THEN /\ top_movies_2015' = TopMovies(movies_2015)
              /\ pc' = "agg4"
              /\ trace' = Append(trace, Step("aggregate", 4))
              /\ UNCHANGED err
         ELSE /\ Raise("KeyError")
              /\ UNCHANGED top_movies_2015
  /\ UNCHANGED << csv, outFile, df, genre_movies_released,
                  genre_total_inflated_gross, grouped_by_genre_year, fig, axs,
                  runs, history >>

Plot4 ==
  /\ pc = "agg4"
  /\ IF ~TopPlotRaises(top_movies_2015)
     THEN /\ axs' = [ axs EXCEPT !["2,0"] =
                       plot_top_movies(@, top_movies_2015, film_colors) ]
          /\ pc' = "plot4"
          /\ trace' = Append(trace, Step("render", 4))
          /\ UNCHANGED err
     ELSE /\ Raise("KeyError")
          /\ UNCHANGED axs
  /\ UNCHANGED << csv, outFile, df, aggregates, fig, runs, history >>

Text1 ==
  /\ pc = "plot4"
  /\ axs' = [ axs EXCEPT !["1,1"] = add_text_subplot(@, FindingsText) ]
  /\ pc' = "text1"
  /\ trace' = Append(trace, Step("render", 5))
  /\ UNCHANGED << csv, outFile, err, df, aggregates, fig, runs, history >>

Text2 ==
  /\ pc = "text1"
  /\ axs' = [ axs EXCEPT !["2,1"] = add_text_subplot(@, AttributionText) ]
  /\ pc' = "text2"
  /\ trace' = Append(trace, Step("render", 6))
  /\ UNCHANGED << csv, outFile, err, df, aggregates, fig, runs, history >>

\* fig.suptitle(...); plt.tight_layout(...)
Layout ==
  /\ pc = "text2"
  /\ fig' = [ fig EXCEPT !.suptitle = "Film Genre Dashboard", !.tight = TRUE ]
  /\ pc' = "layout"
  /\ trace' = Append(trace, Step("layout", 0))
  /\ UNCHANGED << csv, outFile, err, df, aggregates, axs, runs, history >>

\* Variant: an existing file is kept and the write skipped.
SavedFile_KeepExisting(old, image) ==
  IF old.exists THEN old ELSE [ exists |-> TRUE, image |-> image ]

\* What savefig leaves at save_path: the figure as composed, whatever the
\* file held before.
SavedFile(old, image) == [ exists |-> TRUE, image |-> image ]

\* Variant: the figure is saved before the last panel is drawn.
Save_Early ==
  /\ pc = "text1"
  /\ outFile' = SavedFile(outFile, [ fig |-> fig, axs |-> axs ])
  /\ history' = Append(history, outFile'.image)
  /\ pc' = "saved"
  /\ trace' = Append(trace, Step("save", 0))
  /\ UNCHANGED << csv, err, df, aggregates, fig, axs, runs >>

\* plt.savefig(save_path)
Save ==
  /\ pc = "layout"
  /\ outFile' = SavedFile(outFile, [ fig |-> fig, axs |-> axs ])
  /\ history' = Append(history, outFile'.image)
  /\ pc' = "saved"
  /\ trace' = Append(trace, Step("save", 0))
  /\ UNCHANGED << csv, err, df, aggregates, fig, axs, runs >>

\* The process has ended (normally or by an exception) and the program is
\* invoked again on the same files.
Invoke ==
  /\ pc \in {"saved", "error"}
  /\ runs < MaxRuns
  /\ runs' = runs + 1
  /\ pc' = "start"
  /\ err' = "none"
  /\ df' = EmptyTable
  /\ genre_movies_released' = << >>
  /\ genre_total_inflated_gross' = << >>
  /\ grouped_by_genre_year' = EmptyTable
  /\ top_movies_2015' = EmptyTable
  /\ fig' = BlankFigure
  /\ axs' = [ p \in Panels |-> BlankAxes ]
  /\ trace' = << >>
  /\ UNCHANGED << csv, outFile, history >>

\* The steps of one run, Invoke apart.
RunStep ==
  \/ Load \/ CreateFigure \/ Aggregate1 \/ Plot1 \/ Aggregate2 \/ Plot2
  \/ Aggregate3 \/ Plot3 \/ Aggregate4 \/ Plot4 \/ Text1 \/ Text2
  \/ Layout \/ Save

Next == RunStep \/ Invoke

Spec == Init /\ [][Next]_vars

\* ------------------------------------------------------ stating the claims

\* The step has happened in this run.
Done(kind, n) == \E i \in 1..Len(trace) : trace[i] = Step(kind, n)

AllColumns == csv.columns = RequiredColumns

RowIds == 1..Len(csv.rows)

GenresOf(I) == { csv.rows[i][cGenre] : i \in I }

RECURSIVE SumOver(_, _)
\* The sum of column col over the input rows numbered in I.
SumOver(col, I) ==
  IF I = {} THEN 0
  ELSE LET i == CHOOSE j \in I : TRUE
       IN  csv.rows[i][col] + SumOver(col, I \ {i})

RowsOfGenre(g) == { i \in RowIds : csv.rows[i][cGenre] = g }

Rows2015 == { i \in RowIds : csv.rows[i][cYear] = TopYear }

\* s has one entry per genre of the input, each the genre's exact sum of
\* col, and the values never increase along s.
IsGenreAggregate(s, col) ==
  /\ Len(s) = Cardinality(GenresOf(RowIds))
  /\ { s[i].key : i \in 1..Len(s) } = GenresOf(RowIds)
  /\ \A i \in 1..Len(s) : s[i].value = SumOver(col, RowsOfGenre(s[i].key))
  /\ \A i \in 1..(Len(s) - 1) : s[i].value >= s[i + 1].value

\* The bars of a panel are the entries of s, in order.
BarsShow(ax, s) ==
  /\ Len(ax.bars) = Len(s)
  /\ \A i \in 1..Len(s) :
       ax.bars[i].x = s[i].key /\ ax.bars[i].height = s[i].value

\* C1: each of the two genre aggregates has exactly one entry per distinct
\* genre of the input, each entry is the exact sum of its column over the
\* genre's rows, the entries are in descending order of value, and the bar
\* panels show exactly these entries.
C1_GenreAggregates ==
  /\ Done("aggregate", 1) => IsGenreAggregate(genre_movies_released, cReleased)
  /\ Done("aggregate", 2) => IsGenreAggregate(genre_total_inflated_gross, cGross)
  /\ Done("render", 1) => BarsShow(axs["0,0"], genre_movies_released)
  /\ Done("render", 2) => BarsShow(axs["0,1"], genre_total_inflated_gross)

\* Both aggregates are built and drawn over at least three genres, one of
\* them with several rows, and sorting by value changed the key order.
C1_Witness ==
  /\ Done("render", 2)
  /\ Len(genre_movies_released) >= 3
  /\ \E g \in GenresOf(RowIds) : Cardinality(RowsOfGenre(g)) >= 2
  /\ genre_movies_released # GroupBySum(df, cReleased)
  /\ \E i \in 1..(Len(genre_total_inflated_gross) - 1) :
       genre_total_inflated_gross[i].value > genre_total_inflated_gross[i + 1].value

\* C2: every row of the top-movie dataset is an input row of 2015 whose
\* gross no 2015 row of the same genre exceeds.
C2_TopRowsAreMaximal ==
  Done("aggregate", 4) =>
    \A k \in 1..Len(top_movies_2015.rows) :
      LET r == top_movies_2015.rows[k]
      IN  /\ \E i \in Rows2015 : csv.rows[i] = r
          /\ \A i \in Rows2015 :
               csv.rows[i][cGenre] = r[cGenre] => csv.rows[i][cTopGross] <= r[cTopGross]

\* A genre has two 2015 rows, the later with the larger gross, and another
\* genre has two 2015 rows tied for the maximum.
C2_Witness ==
  /\ Done("aggregate", 4)
  /\ \E i, j \in Rows2015 :
       /\ i < j /\ csv.rows[i][cGenre] = csv.rows[j][cGenre]
       /\ csv.rows[i][cTopGross] < csv.rows[j][cTopGross]
       /\ \E k \in 1..Len(top_movies_2015.rows) : top_movies_2015.rows[k] = csv.rows[j]
  /\ \E i, j \in Rows2015 :
       /\ i < j /\ csv.rows[i][cGenre] = csv.rows[j][cGenre]
       /\ csv.rows[i][cTopGross] = csv.rows[j][cTopGross]
       /\ \E k \in 1..Len(top_movies_2015.rows) : top_movies_2015.rows[k] = csv.rows[i]

InterestSet == { genres_of_interest[i] : i \in 1..Len(genres_of_interest) }

YearsOfGenre(g) == { csv.rows[i][cYear] : i \in RowsOfGenre(g) }

\* C3: the trend panel has one series per genre of interest that occurs in
\* the input and none for any other genre; a series has exactly one point
\* per (genre, year) pair of the input, whose value is the sum of Movies
\* Released over the pair's rows; an absent genre is skipped without error.
C3_TrendSeries ==
  /\ Done("aggregate", 3) /\ pc = "agg3" => ENABLED Plot3
  /\ Done("render", 3) =>
       LET lines == axs["1,0"].lines
       IN  /\ { lines[i].label : i \in 1..Len(lines) }
                = InterestSet \cap GenresOf(RowIds)
           /\ \A i, j \in 1..Len(lines) : lines[i].label = lines[j].label => i = j
           /\ \A i \in 1..Len(lines) :
                LET g   == lines[i].label
                    pts == lines[i].points
                IN  /\ { pts[k].x : k \in 1..Len(pts) } = YearsOfGenre(g)
                    /\ Len(pts) = Cardinality(YearsOfGenre(g))
                    /\ \A k \in 1..Len(pts) :
                         pts[k].y = SumOver(cReleased,
                                      { r \in RowsOfGenre(g) : csv.rows[r][cYear] = pts[k].x })
  /\ pc = "plot3" => err = "none"

\* The panel is drawn for an input that lacks a genre of interest, holds a
\* genre outside the list, a genre over two years and a repeated pair.
C3_Witness ==
  /\ Done("render", 3)
  /\ InterestSet \ GenresOf(RowIds) # {}
  /\ GenresOf(RowIds) \ InterestSet # {}
  /\ \E i \in 1..Len(axs["1,0"].lines) : Len(axs["1,0"].lines[i].points) = 2
  /\ \E i \in 1..Len(axs["1,0"].lines) :
       \E a, b \in RowsOfGenre(axs["1,0"].lines[i].label) :
         a # b /\ csv.rows[a][cYear] = csv.rows[b][cYear]

\* C4: with every required column and no row of 2015 (the empty input
\* included) the top-movie dataset is empty, its panel is drawn with no
\* bar, no error is raised, and the run can always take its next step until
\* it has saved.
C4_NoRowOf2015 ==
  AllColumns /\ Rows2015 = {} =>
    /\ err = "none" /\ pc # "error"
    /\ Done("aggregate", 4) => top_movies_2015.rows = << >>
    /\ Done("render", 4) => axs["2,0"].drawn /\ axs["2,0"].bars = << >>
    /\ pc # "saved" => ENABLED RunStep
    /\ pc = "saved" => outFile.exists /\ \A p \in Panels : outFile.image.axs[p].drawn

\* A run over a non-empty input without a 2015 row has saved the image.
C4_Witness ==
  /\ AllColumns /\ Rows2015 = {} /\ csv.rows # << >>
  /\ pc = "saved"
  /\ axs["2,0"].drawn /\ axs["2,0"].bars = << >>

Missing == RequiredColumns \ csv.columns

PanelsDrawn == { p \in Panels : axs[p].drawn }

\* C5 as claimed: with a required column missing, no panel has been drawn
\* when the error is raised, and the image is never written.
C5_Original ==
  Missing # {} =>
    /\ pc = "error" => PanelsDrawn = {}
    /\ ~Done("save", 0) /\ history = << >>

\* C5: with one required column missing, the run raises before any panel is
\* drawn when the column is Genre or Movies Released, after the first panel
\* when it is Inflation-Adjusted Gross, after the first two when it is Year,
\* and after the first three when it is Top Movie or Top Movie Gross and a
\* row of 2015 exists; in all these cases the image is never written. With
\* Top Movie or Top Movie Gross missing and no row of 2015 nothing is
\* raised and the image is written.
C5_RaisesAtFirstUse ==
  Missing # {} =>
    LET raisesAfter(reached, last, drawn) ==
          /\ pc \in reached \cup {last, "error"}
          /\ pc = last => ENABLED RunStep
          /\ pc = "error" => PanelsDrawn = drawn
          /\ ~Done("save", 0) /\ history = << >>
    IN  /\ Missing \cap {cGenre, cReleased} # {} =>
             raisesAfter({"start", "loaded"}, "figure", {})
        /\ Missing = {cGross} =>
             raisesAfter({"start", "loaded", "figure", "agg1"}, "plot1", {"0,0"})
        /\ Missing = {cYear} =>
             raisesAfter({"start", "loaded", "figure", "agg1", "plot1", "agg2"},
                         "plot2", {"0,0", "0,1"})
        /\ Missing = {cTopGross} /\ Rows2015 # {} =>
             raisesAfter({"start", "loaded", "figure", "agg1", "plot1", "agg2",
                          "plot2", "agg3"}, "plot3", {"0,0", "0,1", "1,0"})
        /\ Missing = {cTopMovie} /\ Rows2015 # {} =>
             raisesAfter({"start", "loaded", "figure", "agg1", "plot1", "agg2",
                          "plot2", "agg3", "plot3"}, "agg4", {"0,0", "0,1", "1,0"})
        /\ Missing \subseteq {cTopGross, cTopMovie} /\ Rows2015 = {} =>
             /\ pc # "error" /\ err = "none"
             /\ pc # "saved" => ENABLED RunStep
             /\ pc = "saved" => outFile.exists /\ history # << >>

\* A run without the Inflation-Adjusted Gross column has raised with the
\* first panel drawn.
C5_Witness ==
  /\ Missing = {cGross} /\ csv.rows # << >>
  /\ pc = "error" /\ err = "KeyError"
  /\ PanelsDrawn = {"0,0"} /\ axs["0,0"].bars # << >>

Position(kind, n) == CHOOSE i \in 1..Len(trace) : trace[i] = Step(kind, n)

Before(k1, n1, k2, n2) ==
  Done(k2, n2) => Done(k1, n1) /\ Position(k1, n1) < Position(k2, n2)

SavedOnceAfterAllPanels ==
  /\ Cardinality({ i \in 1..Len(trace) : trace[i].kind = "save" }) <= 1
  /\ \A n \in 1..6 : Before("render", n, "save", 0)

\* C6 as claimed: no aggregation before the load, no panel before every
\* aggregation has finished, one save after all six panels.
C6_Original ==
  /\ \A n \in 1..4 : Before("load", 0, "aggregate", n)
  /\ \A n \in 1..6 : \A m \in 1..4 : Before("aggregate", m, "render", n)
  /\ SavedOnceAfterAllPanels

\* The order of the statements of create_dashboard.
StatementOrder ==
  << Step("load", 0), Step("figure", 0),
     Step("aggregate", 1), Step("render", 1),
     Step("aggregate", 2), Step("render", 2),
     Step("aggregate", 3), Step("render", 3),
     Step("aggregate", 4), Step("render", 4),
     Step("render", 5), Step("render", 6),
     Step("layout", 0), Step("save", 0) >>

\* C6: the steps of a run are a prefix of load, figure, then each data
\* panel's aggregation directly followed by its rendering, then the two text
\* panels, layout and save (ended early only by an exception): no
\* aggregation precedes the load, a data panel is rendered after its own
\* aggregation, and the one save follows all six panels.
C6_InterleavedOrder ==
  LET n == IF trace # << >> /\ trace[Len(trace)].kind = "raise"
           THEN Len(trace) - 1 ELSE Len(trace)
  IN  /\ n <= Len(StatementOrder)
      /\ SubSeq(trace, 1, n) = SubSeq(StatementOrder, 1, n)
      /\ \A k \in 1..4 : Before("load", 0, "aggregate", k)
      /\ \A k \in 1..4 : Before("aggregate", k, "render", k)
      /\ SavedOnceAfterAllPanels

\* A run has gone through every step and saved.
C6_Witness ==
  /\ pc = "saved" /\ Done("save", 0) /\ Len(trace) = Len(StatementOrder)
  /\ \A p \in Panels : axs[p].drawn

\* C7: once loaded, the table keeps the rows, order and values of the file
\* through every aggregation and rendering.
C7_DfNeverModified ==
  pc # "start" =>
    /\ df.columns = csv.columns
    /\ df.rows = csv.rows
    /\ df.index = [ i \in 1..Len(csv.rows) |-> i - 1 ]

\* A run has saved over an input that mixes rows of 2015 and of other years.
C7_Witness ==
  /\ pc = "saved" /\ AllColumns
  /\ Rows2015 # {} /\ Rows2015 # RowIds
  /\ top_movies_2015.rows # << >>

\* C8: a run that ends normally has gone through every step, drawn every
\* panel and left at the output path the figure it composed, whatever was
\* there; every invocation so far wrote, and all wrote the same image.
C8_EveryRunWritesTheSame ==
  /\ pc = "saved" =>
       /\ trace = StatementOrder
       /\ \A p \in Panels : axs[p].drawn
       /\ outFile = [ exists |-> TRUE, image |-> [ fig |-> fig, axs |-> axs ] ]
       /\ Len(history) = runs
       /\ history[Len(history)] = outFile.image
  /\ \A i, j \in 1..Len(history) : history[i] = history[j]

\* The second invocation on a non-empty input has saved.
C8_Witness ==
  /\ runs = 2 /\ pc = "saved" /\ Len(history) = 2
  /\ csv.rows # << >> /\ axs["0,0"].bars # << >>

Genres2015InOrder == SelectSeq(GenreOrder, LAMBDA g : g \in GenresOf(Rows2015))

\* C9: with G genres among the 2015 rows the top-movie dataset has
\* min(5, G) rows, of the first min(5, G) genres in group order, no genre
\* twice; its panel has one bar per row at x = 0, 1, ... and one tick label
\* per bar.
C9_TopFiveRows ==
  Done("aggregate", 4) =>
    LET n    == Min(5, Cardinality(GenresOf(Rows2015)))
        rows == top_movies_2015.rows
        ax   == axs["2,0"]
    IN  /\ Len(rows) = n
        /\ \A k \in 1..Len(rows) : rows[k][cGenre] = Genres2015InOrder[k]
        /\ \A j, k \in 1..Len(rows) : rows[j][cGenre] = rows[k][cGenre] => j = k
        /\ Done("render", 4) =>
             /\ Len(ax.bars) = n
             /\ \A k \in 1..Len(ax.bars) :
                  ax.bars[k].x = k - 1 /\ ax.bars[k].height = rows[k][cTopGross]
             /\ ax.xticks = [ k \in 1..n |-> k - 1 ]
             /\ Len(ax.xticklabels) = n
             /\ \A k \in 1..Len(ax.xticklabels) : ax.xticklabels[k] = rows[k][cGenre]

\* The panel is drawn for an input with more than five genres in 2015.
C9_Witness ==
  /\ Done("render", 4)
  /\ Cardinality(GenresOf(Rows2015)) > 5
  /\ Len(axs["2,0"].bars) = 5

\* C10: a trend line's colour is the palette entry at its genre's position
\* in the genres of interest, whatever other genres the input holds, so
\* distinct genres use distinct positions; every palette position used by
\* the trend lines and by the top-movie bars lies within the palette.
C10_ColourByPosition ==
  /\ Done("render", 3) =>
       LET lines == axs["1,0"].lines
       IN  /\ \A i \in 1..Len(lines) :
                \E q \in 1..Len(genres_of_interest) :
                  /\ genres_of_interest[q] = lines[i].label
                  /\ lines[i].ci = q - 1
                  /\ lines[i].color = film_colors[q]
           /\ \A i, j \in 1..Len(lines) : lines[i].ci = lines[j].ci => i = j
  /\ \A k \in 1..Len(axs["2,0"].bars) :
       /\ axs["2,0"].bars[k].ci \in 0..(Len(film_colors) - 1)
       /\ axs["2,0"].bars[k].color = film_colors[axs["2,0"].bars[k].ci + 1]

\* Both panels are drawn for an input without the first genre of interest
\* and with later ones, and with five bars.
C10_Witness ==
  /\ Done("render", 4)
  /\ genres_of_interest[1] \notin GenresOf(RowIds)
  /\ Len(axs["1,0"].lines) >= 2
  /\ Len(axs["2,0"].bars) = 5

=============================================================================
